---- MODULE Spec2Model ----
(***************************************************************************)
(* The CRUD service of src/app.py: three tables (users, products, orders)  *)
(* behind fifteen FastAPI handlers, each of which opens its own SQLAlchemy *)
(* session on a MySQL database.                                            *)
(*                                                                         *)
(* Storage is modelled as MySQL runs by default: InnoDB (UNIQUE, NOT NULL  *)
(* and FOREIGN KEY are enforced at commit) in strict SQL mode (a value too *)
(* long for its column is an error).  The database outlives the process    *)
(* (fixed URI, line 13; create_all creates only missing tables, line 54),  *)
(* so Init ranges over stored contents that satisfy the declared schema.   *)
(*                                                                         *)
(* Strings are TLA+ strings, except emails, which are tuples of one-char   *)
(* strings so that the validator's `"@" in value` is computed.             *)
(***************************************************************************)
EXTENDS Integers, Sequences, FiniteSets, TLC

VARIABLES
    users,      \* table users:    id -> [first_name, last_name, email, password]
    products,   \* table products: id -> [name, description, price]
    orders,     \* table orders:   id -> [user_id, product_id, order_date, status]
    nextId,     \* AUTO_INCREMENT counter of each table
    req,        \* the request handled last: [op, id, body]
    resp,       \* its response: [status, body]
    sess,       \* worker -> the session of its in-flight PUT /users/{id}
    commitLog   \* the workers whose update committed, in commit order

db == <<users, products, orders, nextId>>
conc == <<sess, commitLog>>
vars == <<users, products, orders, nextId, req, resp, sess, commitLog>>

-----------------------------------------------------------------------------
(* Bounds of the model *)

MaxUserId == 2
MaxProductId == 1

(* Program constants *)

NameMaxLen == 100
DescriptionMaxLen == 500
StatusColumnLen == 20
FloatDigits == 6

HTTP_OK == 200
HTTP_CREATED == 201
HTTP_NO_CONTENT == 204
HTTP_NOT_FOUND == 404
HTTP_UNPROCESSABLE == 422
HTTP_SERVER_ERROR == 500

Null == "NULL"
NoBody == [json |-> "null"]

-----------------------------------------------------------------------------
(* Schemas (pydantic): a payload is a function from field names to values *)

UserFields == {"first_name", "last_name", "email", "password"}
ProductFields == {"name", "description", "price"}
OrderFields == {"user_id", "product_id", "status"}

Contains(s, c) == \E i \in 1..Len(s) : s[i] = c

(* the validator with `and` for `or`: an email is refused only when it     *)
(* lacks both characters                                                   *)
email_must_be_valid_And(value) ==
    ~ (~ Contains(value, "@") /\ ~ Contains(value, "."))

(* raises ValueError (FALSE) or returns the value (TRUE) *)
email_must_be_valid(value) ==
    ~ (~ Contains(value, "@") \/ ~ Contains(value, "."))

UserSchema(user) ==
    /\ UserFields \subseteq DOMAIN user
    /\ Len(user.first_name) <= NameMaxLen
    /\ Len(user.last_name) <= NameMaxLen
    /\ Len(user.email) <= NameMaxLen
    /\ Len(user.password) <= NameMaxLen
    /\ email_must_be_valid(user.email)

ProductSchema(product) ==
    /\ ProductFields \subseteq DOMAIN product
    /\ Len(product.name) <= NameMaxLen
    /\ Len(product.description) <= DescriptionMaxLen

OrderSchema(order) == {"user_id", "product_id"} \subseteq DOMAIN order

UserDict(user) == [f \in UserFields |-> user[f]]
ProductDict(product) == [f \in ProductFields |-> product[f]]
OrderDict(order) ==
    [f \in OrderFields |->
        IF f \in DOMAIN order THEN order[f] ELSE "pending"]

-----------------------------------------------------------------------------
(* Storage (MySQL): what a commit accepts, and what a column keeps *)

RECURSIVE Digits(_)
Digits(n) == IF n < 10 THEN 1 ELSE 1 + Digits(n \div 10)

RECURSIVE Pow10(_)
Pow10(k) == IF k = 0 THEN 1 ELSE 10 * Pow10(k - 1)

(* A Float column is single precision: a value comes back with FloatDigits  *)
(* significant digits.  Prices of the model are whole numbers.              *)
FloatColumn(p) ==
    IF Digits(p) <= FloatDigits THEN p
    ELSE LET m == Pow10(Digits(p) - FloatDigits)
         IN  ((p + m \div 2) \div m) * m

(* email declared without unique=True *)
UniqueEmail_Off(tbl, id, row) == TRUE

(* users.email is UNIQUE: `row` may be stored under `id` *)
UniqueEmail(tbl, id, row) ==
    \A other \in DOMAIN tbl : other # id => tbl[other].email # row.email

(* orders: NOT NULL order_date, both foreign keys, String(20) status *)
OrderRowOK(row) ==
    /\ row.order_date # Null
    /\ row.user_id \in DOMAIN users
    /\ row.product_id \in DOMAIN products
    /\ Len(row.status) <= StatusColumnLen

Remove(tbl, id) == [i \in DOMAIN tbl \ {id} |-> tbl[i]]
Put(tbl, id, row) == [i \in DOMAIN tbl \cup {id} |-> IF i = id THEN row ELSE tbl[i]]

RECURSIVE Ascending(_)
Ascending(S) ==
    IF S = {} THEN <<>>
    ELSE LET m == CHOOSE x \in S : \A y \in S : x <= y
         IN  <<m>> \o Ascending(S \ {m})

(* db.query(E).all(): the rows in primary-key order *)
QueryAll(tbl) == Ascending(DOMAIN tbl)

-----------------------------------------------------------------------------
(* Responses *)

JSONResponse(content) == [status |-> HTTP_OK, body |-> content]
HTTPException(code) == [status |-> code, body |-> [detail |-> "not found"]]
RequestValidationError ==
    [status |-> HTTP_UNPROCESSABLE, body |-> [detail |-> "validation error"]]
Unhandled ==
    [status |-> HTTP_SERVER_ERROR, body |-> [detail |-> "Internal Server Error"]]

Request(op, id, body) == [op |-> op, id |-> id, body |-> body]

-----------------------------------------------------------------------------
(* CRUD operations for Users.  A handler body holds no await, so within    *)
(* one event loop it runs from query to commit as one step.                *)

get_users ==
    /\ req' = Request("get_users", 0, NoBody)
    /\ resp' = JSONResponse(
           [i \in 1..Len(QueryAll(users)) |->
               LET id == QueryAll(users)[i]
               IN  [id |-> id,
                    first_name |-> users[id].first_name,
                    last_name |-> users[id].last_name,
                    email |-> users[id].email]])
    /\ UNCHANGED <<db, conc>>

(* user.dict(): the ORM class User defines no dict(), so a found row ends  *)
(* in AttributeError                                                       *)
get_user(user_id) ==
    /\ req' = Request("get_user", user_id, NoBody)
    /\ resp' = IF user_id \notin DOMAIN users
               THEN HTTPException(HTTP_NOT_FOUND)
               ELSE Unhandled
    /\ UNCHANGED <<db, conc>>

create_user(user) ==
    /\ nextId.users <= MaxUserId
    /\ req' = Request("create_user", 0, user)
    /\ IF ~ UserSchema(user)
       THEN resp' = RequestValidationError /\ UNCHANGED db
       ELSE LET db_user == [first_name |-> user.first_name,
                            last_name |-> user.last_name,
                            email |-> user.email,
                            password |-> user.password]
            IN  IF UniqueEmail(users, nextId.users, db_user)
                THEN /\ users' = Put(users, nextId.users, db_user)
                     /\ nextId' = [nextId EXCEPT !.users = @ + 1]
                     /\ resp' = JSONResponse(UserDict(user))
                     /\ UNCHANGED <<products, orders>>
                ELSE resp' = Unhandled /\ UNCHANGED db
    /\ UNCHANGED conc

update_user(user_id, user) ==
    /\ req' = Request("update_user", user_id, user)
    /\ IF ~ UserSchema(user)
       THEN resp' = RequestValidationError /\ UNCHANGED db
       ELSE IF user_id \notin DOMAIN users
       THEN resp' = HTTPException(HTTP_NOT_FOUND) /\ UNCHANGED db
       ELSE LET db_user == [users[user_id] EXCEPT
                                !.first_name = user.first_name,
                                !.last_name = user.last_name,
                                !.email = user.email,
                                !.password = user.password]
            IN  IF UniqueEmail(users, user_id, db_user)
                THEN /\ users' = Put(users, user_id, db_user)
                     /\ resp' = JSONResponse(UserDict(user))
                     /\ UNCHANGED <<products, orders, nextId>>
                ELSE resp' = Unhandled /\ UNCHANGED db
    /\ UNCHANGED conc

(* delete_user without db.delete(db_user): nothing is removed *)
delete_user_NoDelete(user_id) ==
    /\ req' = Request("delete_user", user_id, NoBody)
    /\ IF user_id \notin DOMAIN users
       THEN resp' = HTTPException(HTTP_NOT_FOUND) /\ UNCHANGED db
       ELSE IF \E o \in DOMAIN orders : orders[o].user_id = user_id
       THEN resp' = Unhandled /\ UNCHANGED db
       ELSE resp' = JSONResponse(NoBody) /\ UNCHANGED db
    /\ UNCHANGED conc

(* db.delete(db_user): the backref User.orders has no delete cascade, so   *)
(* the flush first sets user_id of the user's orders to NULL, which the    *)
(* NOT NULL column refuses                                                 *)
delete_user(user_id) ==
    /\ req' = Request("delete_user", user_id, NoBody)
    /\ IF user_id \notin DOMAIN users
       THEN resp' = HTTPException(HTTP_NOT_FOUND) /\ UNCHANGED db
       ELSE IF \E o \in DOMAIN orders : orders[o].user_id = user_id
       THEN resp' = Unhandled /\ UNCHANGED db
       ELSE /\ users' = Remove(users, user_id)
            /\ resp' = JSONResponse(NoBody)
            /\ UNCHANGED <<products, orders, nextId>>
    /\ UNCHANGED conc

-----------------------------------------------------------------------------
(* CRUD operations for Products *)

get_products ==
    /\ req' = Request("get_products", 0, NoBody)
    /\ resp' = JSONResponse(
           [i \in 1..Len(QueryAll(products)) |->
               LET id == QueryAll(products)[i]
               IN  [id |-> id,
                    name |-> products[id].name,
                    description |-> products[id].description,
                    price |-> products[id].price]])
    /\ UNCHANGED <<db, conc>>

get_product(product_id) ==
    /\ req' = Request("get_product", product_id, NoBody)
    /\ resp' = IF product_id \notin DOMAIN products
               THEN HTTPException(HTTP_NOT_FOUND)
               ELSE Unhandled
    /\ UNCHANGED <<db, conc>>

create_product(product) ==
    /\ nextId.products <= MaxProductId
    /\ req' = Request("create_product", 0, product)
    /\ IF ~ ProductSchema(product)
       THEN resp' = RequestValidationError /\ UNCHANGED db
       ELSE LET db_product == [name |-> product.name,
                               description |-> product.description,
                               price |-> FloatColumn(product.price)]
            IN  /\ products' = Put(products, nextId.products, db_product)
                /\ nextId' = [nextId EXCEPT !.products = @ + 1]
                /\ resp' = JSONResponse(ProductDict(product))
                /\ UNCHANGED <<users, orders>>
    /\ UNCHANGED conc

(* update_product without the assignment of description *)
update_product_Partial(product_id, product) ==
    /\ req' = Request("update_product", product_id, product)
    /\ IF ~ ProductSchema(product)
       THEN resp' = RequestValidationError /\ UNCHANGED db
       ELSE IF product_id \notin DOMAIN products
       THEN resp' = HTTPException(HTTP_NOT_FOUND) /\ UNCHANGED db
       ELSE LET db_product == [products[product_id] EXCEPT
                                   !.name = product.name,
                                   !.price = FloatColumn(product.price)]
            IN  /\ products' = Put(products, product_id, db_product)
                /\ resp' = JSONResponse(ProductDict(product))
                /\ UNCHANGED <<users, orders, nextId>>
    /\ UNCHANGED conc

update_product(product_id, product) ==
    /\ req' = Request("update_product", product_id, product)
    /\ IF ~ ProductSchema(product)
       THEN resp' = RequestValidationError /\ UNCHANGED db
       ELSE IF product_id \notin DOMAIN products
       THEN resp' = HTTPException(HTTP_NOT_FOUND) /\ UNCHANGED db
       ELSE LET db_product == [products[product_id] EXCEPT
                                   !.name = product.name,
                                   !.description = product.description,
                                   !.price = FloatColumn(product.price)]
            IN  /\ products' = Put(products, product_id, db_product)
                /\ resp' = JSONResponse(ProductDict(product))
                /\ UNCHANGED <<users, orders, nextId>>
    /\ UNCHANGED conc

(* delete_product on a relationship with passive_deletes: the orders are   *)
(* left alone and the row goes                                             *)
delete_product_Passive(product_id) ==
    /\ req' = Request("delete_product", product_id, NoBody)
    /\ IF product_id \notin DOMAIN products
       THEN resp' = HTTPException(HTTP_NOT_FOUND) /\ UNCHANGED db
       ELSE /\ products' = Remove(products, product_id)
            /\ resp' = JSONResponse(NoBody)
            /\ UNCHANGED <<users, orders, nextId>>
    /\ UNCHANGED conc

(* db.delete(db_product): as for delete_user, the flush first sets         *)
(* product_id of the product's orders to NULL                              *)
delete_product(product_id) ==
    /\ req' = Request("delete_product", product_id, NoBody)
    /\ IF product_id \notin DOMAIN products
       THEN resp' = HTTPException(HTTP_NOT_FOUND) /\ UNCHANGED db
       ELSE IF \E o \in DOMAIN orders : orders[o].product_id = product_id
       THEN resp' = Unhandled /\ UNCHANGED db
       ELSE /\ products' = Remove(products, product_id)
            /\ resp' = JSONResponse(NoBody)
            /\ UNCHANGED <<users, orders, nextId>>
    /\ UNCHANGED conc

-----------------------------------------------------------------------------
(* CRUD operations for Orders *)

get_orders ==
    /\ req' = Request("get_orders", 0, NoBody)
    /\ resp' = JSONResponse(
           [i \in 1..Len(QueryAll(orders)) |->
               LET id == QueryAll(orders)[i]
               IN  [id |-> id,
                    user_id |-> orders[id].user_id,
                    product_id |-> orders[id].product_id,
                    order_date |-> orders[id].order_date,
                    status |-> orders[id].status]])
    /\ UNCHANGED <<db, conc>>

get_order(order_id) ==
    /\ req' = Request("get_order", order_id, NoBody)
    /\ resp' = IF order_id \notin DOMAIN orders
               THEN HTTPException(HTTP_NOT_FOUND)
               ELSE Unhandled
    /\ UNCHANGED <<db, conc>>

(* Order(...) is built without order_date, which is NOT NULL and has no    *)
(* default: the INSERT carries NULL                                        *)
create_order(order) ==
    /\ req' = Request("create_order", 0, order)
    /\ IF ~ OrderSchema(order)
       THEN resp' = RequestValidationError /\ UNCHANGED db
       ELSE LET db_order == [user_id |-> order.user_id,
                             product_id |-> order.product_id,
                             order_date |-> Null,
                             status |-> OrderDict(order).status]
            IN  IF OrderRowOK(db_order)
                THEN /\ orders' = Put(orders, nextId.orders, db_order)
                     /\ nextId' = [nextId EXCEPT !.orders = @ + 1]
                     /\ resp' = JSONResponse(OrderDict(order))
                     /\ UNCHANGED <<users, products>>
                ELSE resp' = Unhandled /\ UNCHANGED db
    /\ UNCHANGED conc

update_order(order_id, order) ==
    /\ req' = Request("update_order", order_id, order)
    /\ IF ~ OrderSchema(order)
       THEN resp' = RequestValidationError /\ UNCHANGED db
       ELSE IF order_id \notin DOMAIN orders
       THEN resp' = HTTPException(HTTP_NOT_FOUND) /\ UNCHANGED db
       ELSE LET db_order == [orders[order_id] EXCEPT
                                 !.user_id = order.user_id,
                                 !.product_id = order.product_id,
                                 !.status = OrderDict(order).status]
            IN  IF OrderRowOK(db_order)
                THEN /\ orders' = Put(orders, order_id, db_order)
                     /\ resp' = JSONResponse(OrderDict(order))
                     /\ UNCHANGED <<users, products, nextId>>
                ELSE resp' = Unhandled /\ UNCHANGED db
    /\ UNCHANGED conc

(* delete_order without the None check: db.delete(None) raises *)
delete_order_Unchecked(order_id) ==
    /\ req' = Request("delete_order", order_id, NoBody)
    /\ IF order_id \notin DOMAIN orders
       THEN resp' = Unhandled /\ UNCHANGED db
       ELSE /\ orders' = Remove(orders, order_id)
            /\ resp' = JSONResponse(NoBody)
            /\ UNCHANGED <<users, products, nextId>>
    /\ UNCHANGED conc

delete_order(order_id) ==
    /\ req' = Request("delete_order", order_id, NoBody)
    /\ IF order_id \notin DOMAIN orders
       THEN resp' = HTTPException(HTTP_NOT_FOUND) /\ UNCHANGED db
       ELSE /\ orders' = Remove(orders, order_id)
            /\ resp' = JSONResponse(NoBody)
            /\ UNCHANGED <<users, products, nextId>>
    /\ UNCHANGED conc

-----------------------------------------------------------------------------
(* Two PUT /users/{id} in flight in two worker processes, each in its own  *)
(* session (get_db): the SELECT and the commit are separate round trips to *)
(* the one database.                                                       *)

Workers == {"w1", "w2"}
Idle == [pc |-> "idle"]

(* db.query(User).filter(User.id == user_id).first(), after validation *)
update_user_query(w, user_id, user) ==
    /\ sess[w].pc = "idle"
    /\ UserSchema(user)
    /\ sess' = [sess EXCEPT ![w] =
           IF user_id \notin DOMAIN users
           THEN [pc |-> "done", id |-> user_id, user |-> user,
                 status |-> HTTP_NOT_FOUND]
           ELSE [pc |-> "loaded", id |-> user_id, user |-> user,
                 db_user |-> users[user_id]]]
    /\ UNCHANGED <<db, req, resp, commitLog>>

(* a flush that writes every assigned attribute *)
Flush_AllColumns(row, loaded, user) == [f \in UserFields |-> user[f]]

(* The flush of db.commit(): the UPDATE sets only the attributes whose     *)
(* assigned value differs from the value the session loaded                *)
Flush(row, loaded, user) ==
    [f \in UserFields |-> IF user[f] # loaded[f] THEN user[f] ELSE row[f]]

(* the four assignments, db.commit(), db.refresh(db_user) *)
update_user_commit(w) ==
    /\ sess[w].pc = "loaded"
    /\ LET s == sess[w]
           row == Flush(users[s.id], s.db_user, s.user)
       IN  IF UniqueEmail(users, s.id, row)
           THEN /\ users' = Put(users, s.id, row)
                /\ sess' = [sess EXCEPT ![w] =
                       [pc |-> "done", id |-> s.id, user |-> s.user,
                        db_user |-> s.db_user, status |-> HTTP_OK]]
                /\ commitLog' = Append(commitLog, w)
           ELSE /\ sess' = [sess EXCEPT ![w] =
                       [pc |-> "done", id |-> s.id, user |-> s.user,
                        db_user |-> s.db_user, status |-> HTTP_SERVER_ERROR]]
                /\ UNCHANGED <<users, commitLog>>
    /\ UNCHANGED <<products, orders, nextId, req, resp>>

-----------------------------------------------------------------------------
(* Inputs *)

Email1 == <<"a", "@", "b", ".", "c", "o", "m">>
Email2 == <<"c", "@", "d", ".", "o", "r", "g">>
NotAnEmail == <<"n", "o", "t", "-", "a", "n", "-", "e", "m", "a", "i", "l">>
NoDot == <<"a", "@", "b">>
NoAt == <<"a", ".", "b">>

UserJson(fn, ln, em, pw) ==
    [first_name |-> fn, last_name |-> ln, email |-> em, password |-> pw]

Anna == UserJson("Anna", "Ivanova", Email1, "x")
Ivan == UserJson("Ivan", "Petrov", Email2, "y")

ValidUsers ==
    {Anna, Ivan, UserJson("Ivan", "Ivanova", Email1, "y")}

LongName ==
    "0123456789012345678901234567890123456789012345678901234567890123456789012345678901234567890123456789x"

InvalidUsers ==
    { UserJson("Anna", "Ivanova", NotAnEmail, "x"),
      UserJson("Anna", "Ivanova", NoDot, "x"),
      UserJson("Anna", "Ivanova", NoAt, "x"),
      UserJson(LongName, "Ivanova", Email1, "x"),
      [first_name |-> "Anna", last_name |-> "Ivanova", email |-> Email1] }

UserPayloads == ValidUsers \cup InvalidUsers

ConcUsers == ValidUsers \cup {UserJson("Anna", "Petrov", Email1, "x")}

ProductJson(n, d, p) == [name |-> n, description |-> d, price |-> p]

Tea == ProductJson("Tea", "Green", 5)

ProductPayloads ==
    { Tea,
      ProductJson("Cup", "Blue", 1234567),
      [name |-> "Cup", description |-> "Blue"] }

OrderJson(u, p, s) == [user_id |-> u, product_id |-> p, status |-> s]

OrderPayloads ==
    { OrderJson(1, 1, "shipped"),
      [user_id |-> 2, product_id |-> 1],
      OrderJson(1, 999, "pending"),
      OrderJson(1, 1, "a status of more than twenty characters"),
      [user_id |-> 1, status |-> "pending"] }

UserIds == 1..(MaxUserId + 1)
ProductIds == 1..(MaxProductId + 1)
OrderIds == {1, 2}

-----------------------------------------------------------------------------
(* The stored contents the service starts on *)

Empty == [i \in {} |-> {}]

Stored(u, p, o) ==
    [users |-> u, products |-> p, orders |-> o,
     nextId |-> [users |-> Cardinality(DOMAIN u) + 1,
                 products |-> Cardinality(DOMAIN p) + 1,
                 orders |-> Cardinality(DOMAIN o) + 1]]

Databases ==
    { Stored(Empty, Empty, Empty),
      Stored(1 :> Anna, 1 :> [Tea EXCEPT !.price = FloatColumn(@)],
             1 :> [user_id |-> 1, product_id |-> 1,
                   order_date |-> "2024-01-01T00:00:00",
                   status |-> "pending"]) }

InitDb ==
    \E d \in Databases :
        /\ users = d.users
        /\ products = d.products
        /\ orders = d.orders
        /\ nextId = d.nextId

Init ==
    /\ InitDb
    /\ req = Request("startup", 0, NoBody)
    /\ resp = JSONResponse(NoBody)
    /\ sess = [w \in Workers |-> Idle]
    /\ commitLog = <<>>

Next ==
    \/ get_users
    \/ \E id \in UserIds : get_user(id)
    \/ \E user \in UserPayloads : create_user(user)
    \/ \E id \in UserIds, user \in UserPayloads : update_user(id, user)
    \/ \E id \in UserIds : delete_user(id)
    \/ get_products
    \/ \E id \in ProductIds : get_product(id)
    \/ \E product \in ProductPayloads : create_product(product)
    \/ \E id \in ProductIds, product \in ProductPayloads : update_product(id, product)
    \/ \E id \in ProductIds : delete_product(id)
    \/ get_orders
    \/ \E id \in OrderIds : get_order(id)
    \/ \E order \in OrderPayloads : create_order(order)
    \/ \E id \in OrderIds, order \in OrderPayloads : update_order(id, order)
    \/ \E id \in OrderIds : delete_order(id)

Spec == Init /\ [][Next]_vars

InitConc ==
    /\ users \in {1 :> Anna, (1 :> Anna) @@ (2 :> Ivan)}
    /\ products = Empty
    /\ orders = Empty
    /\ nextId = [users |-> Cardinality(DOMAIN users) + 1,
                 products |-> 1, orders |-> 1]
    /\ req = Request("startup", 0, NoBody)
    /\ resp = JSONResponse(NoBody)
    /\ sess = [w \in Workers |-> Idle]
    /\ commitLog = <<>>

NextConc ==
    \/ \E w \in Workers, id \in {1, 2}, user \in ConcUsers :
           update_user_query(w, id, user)
    \/ \E w \in Workers : update_user_commit(w)

SpecConc == InitConc /\ [][NextConc]_vars

-----------------------------------------------------------------------------
(* Properties.  A step of Spec handles the request req' and answers resp'; *)
(* the unprimed tables are the storage the request found.                  *)

Success(r) == r.status \in 200..299
Tables == <<users, products, orders>>

(* C1: for every entity and every id with no row, get(id), update(id, P)   *)
(* with a validated P, and delete(id) answer 404 Not Found and leave all   *)
(* three tables as they were.                                              *)
C1_AbsentIdNotFound ==
    [][ /\ ( /\ \/ req'.op \in {"get_user", "delete_user"}
                \/ req'.op = "update_user" /\ UserSchema(req'.body)
             /\ req'.id \notin DOMAIN users )
           => (resp'.status = HTTP_NOT_FOUND /\ UNCHANGED Tables)
        /\ ( /\ \/ req'.op \in {"get_product", "delete_product"}
                \/ req'.op = "update_product" /\ ProductSchema(req'.body)
             /\ req'.id \notin DOMAIN products )
           => (resp'.status = HTTP_NOT_FOUND /\ UNCHANGED Tables)
        /\ ( /\ \/ req'.op \in {"get_order", "delete_order"}
                \/ req'.op = "update_order" /\ OrderSchema(req'.body)
             /\ req'.id \notin DOMAIN orders )
           => (resp'.status = HTTP_NOT_FOUND /\ UNCHANGED Tables)
      ]_vars

(* C1's case: an update of an order id that has no row was answered 404 *)
C1_Witness ==
    /\ req.op = "update_order"
    /\ OrderSchema(req.body)
    /\ req.id \notin DOMAIN orders
    /\ resp.status = HTTP_NOT_FOUND

(* C2: round trip: after a successful create_user(P), a get of the id the  *)
(* row was given succeeds and returns first_name, last_name, email and     *)
(* password equal to those of P.                                           *)
C2_RoundTrip ==
    [][ ( /\ req.op = "create_user" /\ Success(resp)
          /\ req'.op = "get_user" /\ req'.id = nextId.users - 1 )
        => /\ users[req'.id] = UserDict(req.body)
           /\ Success(resp')
           /\ \A f \in UserFields : resp'.body[f] = req.body[f]
      ]_vars

(* C4: a successful delete(id) removes exactly the row id; while no create *)
(* follows, the id stays absent, get(id) answers 404 Not Found, and list() *)
(* returns exactly the rows still stored, so it holds no record with that  *)
(* id and still holds every other row.                                     *)
ListedIds(r) == {r.body[i].id : i \in 1..Len(r.body)}

DeleteThenGet(tbl, tblNext, ids, delete, create, get, list) ==
    /\ (req'.op = delete /\ Success(resp'))
       => /\ req'.id \in DOMAIN tbl
          /\ tblNext = Remove(tbl, req'.id)
    /\ \A id \in ids :
          (id \notin DOMAIN tbl /\ req'.op # create)
          => id \notin DOMAIN tblNext
    /\ (req'.op = get /\ req'.id \notin DOMAIN tbl)
       => resp'.status = HTTP_NOT_FOUND
    /\ (req'.op = list)
       => (Success(resp') /\ ListedIds(resp') = DOMAIN tbl)

C4_DeleteThenGet ==
    [][ /\ DeleteThenGet(users, users', UserIds,
                         "delete_user", "create_user", "get_user", "get_users")
        /\ DeleteThenGet(products, products', ProductIds,
                         "delete_product", "create_product", "get_product",
                         "get_products")
        /\ DeleteThenGet(orders, orders', OrderIds,
                         "delete_order", "create_order", "get_order", "get_orders")
      ]_vars

(* C4's case: a get of a user id that was assigned and deleted answers 404 *)
C4_Witness ==
    /\ req.op = "get_user"
    /\ req.id < nextId.users
    /\ req.id \notin DOMAIN users
    /\ resp.status = HTTP_NOT_FOUND

(* C7: a create_user or update_user whose payload omits a required field,  *)
(* or whose email lacks "@" or lacks ".", is answered 422 and leaves every *)
(* table as it was.                                                        *)
Malformed(user) ==
    \/ \E f \in UserFields : f \notin DOMAIN user
    \/ \A i \in 1..Len(user.email) : user.email[i] # "@"
    \/ \A i \in 1..Len(user.email) : user.email[i] # "."

C7_InvalidUserRejected ==
    [][ (req'.op \in {"create_user", "update_user"} /\ Malformed(req'.body))
        => (resp'.status = HTTP_UNPROCESSABLE /\ UNCHANGED db)
      ]_vars

(* C7's case: a create with email "not-an-email" was answered 422 *)
C7_Witness ==
    /\ req.op = "create_user"
    /\ "email" \in DOMAIN req.body
    /\ req.body.email = NotAnEmail
    /\ resp.status = HTTP_UNPROCESSABLE

(* C3 as written: an update(id, P) of an existing id with a validated P    *)
(* overwrites every payload field of the row with P's value, keeps the     *)
(* id, leaves every other row of every table as it was, and returns P.     *)
Replaced(tbl, tblNext, fields, dict) ==
    /\ DOMAIN tblNext = DOMAIN tbl
    /\ \A f \in fields : tblNext[req'.id][f] = dict[f]
    /\ \A other \in DOMAIN tbl \ {req'.id} : tblNext[other] = tbl[other]
    /\ resp' = JSONResponse(dict)

FullReplace(accepted) ==
    /\ ( /\ req'.op = "update_user" /\ UserSchema(req'.body)
         /\ req'.id \in DOMAIN users
         /\ accepted => UniqueEmail(users, req'.id, req'.body) )
       => /\ Replaced(users, users', UserFields, UserDict(req'.body))
          /\ UNCHANGED <<products, orders>>
    /\ ( /\ req'.op = "update_product" /\ ProductSchema(req'.body)
         /\ req'.id \in DOMAIN products
         /\ accepted => Digits(req'.body.price) <= FloatDigits )
       => /\ Replaced(products, products', ProductFields, ProductDict(req'.body))
          /\ UNCHANGED <<users, orders>>
    /\ ( /\ req'.op = "update_order" /\ OrderSchema(req'.body)
         /\ req'.id \in DOMAIN orders
         /\ accepted => /\ req'.body.user_id \in DOMAIN users
                        /\ req'.body.product_id \in DOMAIN products
                        /\ Len(OrderDict(req'.body).status) <= StatusColumnLen )
       => /\ Replaced(orders, orders', OrderFields, OrderDict(req'.body))
          /\ orders'[req'.id].order_date = orders[req'.id].order_date
          /\ UNCHANGED <<users, products>>

C3_FullReplace_Original == [][FullReplace(FALSE)]_vars

(* C3, amended: the same, for a P that storage accepts as it is: no other  *)
(* user holds P.email; a product's price has at most six significant       *)
(* digits; an order's user_id and product_id name existing rows and its    *)
(* status has at most 20 characters.                                       *)
C3_FullReplace == [][FullReplace(TRUE)]_vars

(* C3's case: on the stored contents with an order, where user 1 is Anna,  *)
(* an update of user 1 succeeded and the row holds Ivan's four fields      *)
C3_Witness ==
    /\ req.op = "update_user"
    /\ req.id = 1
    /\ req.body = Ivan
    /\ Success(resp)
    /\ 1 \in DOMAIN orders
    /\ users[1] = Ivan

(* C5: a create with a validated payload succeeds for User, Product and    *)
(* Order and stores exactly one new row under a new id, unless another     *)
(* user holds the email; an Order create succeeds also when its user_id or *)
(* product_id names no row.                                                *)
Created(tbl, tblNext, row) ==
    /\ Success(resp')
    /\ \E id \in DOMAIN tblNext \ DOMAIN tbl :
          /\ tblNext = Put(tbl, id, tblNext[id])
          /\ \A f \in DOMAIN row : tblNext[id][f] = row[f]

C5_CreateSucceeds ==
    [][ /\ ( /\ req'.op = "create_user" /\ UserSchema(req'.body)
             /\ \A id \in DOMAIN users : users[id].email # req'.body.email )
           => Created(users, users', UserDict(req'.body))
        /\ (req'.op = "create_product" /\ ProductSchema(req'.body)
              /\ Digits(req'.body.price) <= FloatDigits)
           => Created(products, products', ProductDict(req'.body))
        /\ (req'.op = "create_order" /\ OrderSchema(req'.body))
           => Created(orders, orders', OrderDict(req'.body))
      ]_vars

(* C6: a successful POST on a collection route answers 201 with the        *)
(* created record, and a successful DELETE answers 204 with an empty body. *)
C6_StatusCodes ==
    /\ (req.op \in {"create_user", "create_product", "create_order"}
          /\ Success(resp))
       => resp.status = HTTP_CREATED
    /\ (req.op \in {"delete_user", "delete_product", "delete_order"}
          /\ Success(resp))
       => resp.status = HTTP_NO_CONTENT

(* C8: no two rows of users ever hold the same email; a create_user, or an *)
(* update_user of an existing row, with a validated payload whose email    *)
(* another row holds, is answered 500 and leaves the users table as it was *)
NoTwoRowsSameEmail ==
    \A i, j \in DOMAIN users : users[i].email = users[j].email => i = j

TakenEmail ==
    /\ UserSchema(req'.body)
    /\ \E other \in DOMAIN users :
          other # req'.id /\ users[other].email = req'.body.email

C8_UniqueEmail ==
    /\ []NoTwoRowsSameEmail
    /\ [][ ( /\ \/ req'.op = "create_user"
                \/ req'.op = "update_user" /\ req'.id \in DOMAIN users
             /\ TakenEmail )
           => (resp'.status = HTTP_SERVER_ERROR /\ users' = users)
         ]_vars

(* C8's case: with two users stored, a create whose email one of them      *)
(* holds was answered 500                                                  *)
C8_Witness ==
    /\ req.op = "create_user"
    /\ resp.status = HTTP_SERVER_ERROR
    /\ \E id \in DOMAIN users : users[id].email = req.body.email

(* C9 as written: a delete of an existing User or Product that orders      *)
(* refer to succeeds, removes only that row and leaves every order as it   *)
(* was, with a user_id or product_id that names no row.                    *)
Referenced(col) == \E o \in DOMAIN orders : orders[o][col] = req'.id

BothCommitted(id) ==
    /\ Len(commitLog) = 2
    /\ sess[commitLog[1]].id = id
    /\ sess[commitLog[2]].id = id

First == sess[commitLog[1]]
Last == sess[commitLog[2]]

C10_LastWriteWins_Original ==
    \A id \in DOMAIN users : BothCommitted(id) => users[id] = UserDict(Last.user)

(* C10, amended: with no other writer of the row, each field of the row    *)
(* equals the last committed payload's value where that differs from the   *)
(* value the last committer's session had read, and the first committed    *)
(* payload's value where it does not: the row can mix the two payloads.    *)
C10_LastWriteWins ==
    \A id \in DOMAIN users :
        BothCommitted(id) =>
            \A f \in UserFields :
                users[id][f] = IF Last.user[f] # Last.db_user[f]
                               THEN Last.user[f]
                               ELSE First.user[f]

(* C10's case: both updates of user 1 committed and the row is neither     *)
(* payload                                                                 *)
C10_Witness ==
    /\ BothCommitted(1)
    /\ users[1] # UserDict(Last.user)
    /\ users[1] # UserDict(First.user)

====
